---- MODULE Spec2Model ----
(***************************************************************************)
(* Model of calibrate_x_positions.py: the CalibrationUtility session       *)
(* (pointer fraction, left/right bound lists, collection phase), its key   *)
(* and motion handlers, and the patcher that averages the bounds and       *)
(* rewrites the UNSCALED_RELATIVE_X_POSITIONS block of src/main.rs.        *)
(*                                                                         *)
(* Python floats are IEEE-754 binary64.  A float is modelled as a record   *)
(* [exp, hi, lo] of value (hi * 2^27 + lo) * 2^exp, where hi * 2^27 + lo   *)
(* is the 53-bit significand.  Zero has hi = lo = 0.  Only non-negative    *)
(* values occur (pointer x >= 0, width > 0).                               *)
(***************************************************************************)
EXTENDS Integers, Sequences, FiniteSets, TLC

\* ------------------------------------------------------------------------
\* Bounds of the model
\* ------------------------------------------------------------------------

\* largest number of left bounds the operator records in a session
MaxLeft == 3

\* pointer x coordinates (pixels) delivered by <Motion> events
Pixels == {1, 7}

\* the same for the sessions of the 0.1 / 0.5 / 0.3 / 0.7 scenario
ScenarioLeft == 2

ScenarioPixels == {1, 3, 5, 7}

AllPixels == Pixels \cup ScenarioPixels

\* values winfo_width() returns: 0 before the window is realised, 10 after
Widths == {0, 10}

\* most tokens a write that fails midway leaves in the file
MaxCut == 2

\* ------------------------------------------------------------------------
\* binary64 arithmetic
\* ------------------------------------------------------------------------
\* The 53-bit significand is kept in two limbs: hi holds its upper 26 bits
\* and lo its lower 27 bits.  A non-zero float is normalised, HiTop / 2 <= hi.

\* one more than the largest lo limb
LoBase == 2^27

\* one more than the largest hi limb
HiTop == 2^26

\* long division produces the quotient 13 bits at a time
Chunk == 2^13

FloatZero == [exp |-> 0, hi |-> 0, lo |-> 0]

IsZero(a) == a.hi = 0

\* round-to-nearest, ties-to-even of (hi * LoBase + lo + fraction) * 2^exp;
\* cmp is -1, 0, 1 as the discarded fraction is below, at or above one half
RoundNearestEven(exp, hi, lo, cmp) ==
    IF cmp > 0 \/ (cmp = 0 /\ lo % 2 = 1)
    THEN IF lo + 1 < LoBase THEN [exp |-> exp, hi |-> hi, lo |-> lo + 1]
         ELSE IF hi + 1 < HiTop THEN [exp |-> exp, hi |-> hi + 1, lo |-> 0]
         ELSE [exp |-> exp + 1, hi |-> HiTop \div 2, lo |-> 0]
    ELSE [exp |-> exp, hi |-> hi, lo |-> lo]

\* (num, den, e) with den <= num < 2*den and x/w = (num/den) * 2^e
RECURSIVE Normalise(_, _, _)
Normalise(num, den, e) ==
    IF num < den THEN Normalise(2 * num, den, e - 1)
    ELSE IF num >= 2 * den THEN Normalise(num, 2 * den, e + 1)
    ELSE [num |-> num, den |-> den, e |-> e]

\* k more 13-bit digits of the binary expansion of r/den (0 <= r < den),
\* appended to digits, and the remainder left
RECURSIVE LongDiv(_, _, _, _)
LongDiv(r, den, k, digits) ==
    IF k = 0 THEN [digits |-> digits, rem |-> r]
    ELSE LongDiv((r * Chunk) % den, den, k - 1,
                 Append(digits, (r * Chunk) \div den))

\* x / w in Python for ints x >= 0, w > 0: the binary64 nearest to the quotient
FloatDiv(x, w) ==
    IF x = 0 THEN FloatZero
    ELSE LET n == Normalise(x, w, 0)
             \* the 52 bits after the leading 1, as four 13-bit digits
             d == LongDiv(n.num - n.den, n.den, 4, <<>>)
             q == d.digits
             cmp == IF 2 * d.rem > n.den THEN 1
                    ELSE IF 2 * d.rem = n.den THEN 0 ELSE -1
         IN  RoundNearestEven(n.e - 52,
                              (HiTop \div 2) + q[1] * (Chunk \div 2) + q[2] \div 2,
                              (q[2] % 2) * (LoBase \div 2) + q[3] * Chunk + q[4],
                              cmp)

\* hi + lo * 2^-d for normalised hi, lo with hi.exp - lo.exp = d <= 26
AddAligned(hi, lo, d) ==
    LET p   == 2^d
        \* lo's significand shifted right by d bits, and the bits shifted out
        qhi == lo.hi \div p
        qlo == (lo.hi % p) * (LoBase \div p) + lo.lo \div p
        out == lo.lo % p
        slo == hi.lo + qlo
        shi == hi.hi + qhi + slo \div LoBase
    IN  IF shi < HiTop
        THEN RoundNearestEven(hi.exp, shi, slo % LoBase,
                              IF 2 * out > p THEN 1
                              ELSE IF 2 * out = p THEN 0 ELSE -1)
        \* 54 bits: one more bit is shifted out
        ELSE RoundNearestEven(hi.exp + 1, shi \div 2,
                              (shi % 2) * (LoBase \div 2) + (slo % LoBase) \div 2,
                              IF slo % 2 = 0 THEN -1
                              ELSE IF out > 0 THEN 1 ELSE 0)

\* a + b in Python for non-negative floats whose exponents differ by at most 26
FloatAdd(a, b) ==
    IF IsZero(a) THEN b
    ELSE IF IsZero(b) THEN a
    ELSE IF a.exp >= b.exp THEN AddAligned(a, b, a.exp - b.exp)
    ELSE AddAligned(b, a, b.exp - a.exp)

\* a / 2.0 in Python (exact: the values are far from the subnormal range)
FloatHalf(a) == IF IsZero(a) THEN a ELSE [a EXCEPT !.exp = @ - 1]

\* winfo_width() values for which on_mouse_move stores a fraction
PositiveWidths == {w \in Widths : w > 0}

\* the floats self.mouse_x_percentage can hold
Fractions ==
    {FloatZero} \cup {FloatDiv(x, w) : x \in AllPixels, w \in PositiveWidths}

\* ------------------------------------------------------------------------
\* src/main.rs as the patcher's regular expression sees it
\* ------------------------------------------------------------------------
\* The file text is a sequence of tokens:
\*   Decl    the literal "const UNSCALED_RELATIVE_X_POSITIONS: &[f32] = &["
\*   Close   the literal "];"
\*   NL      a newline
\*   Txt     any other text without a newline, Decl or Close in it
\*   Num(v)  one rendered array element "    {v:.17e}," of the new block
Decl  == <<"decl">>
Close == <<"close">>
NL    == <<"nl">>
Txt   == <<"txt">>
Num(v) == <<"num", v>>

Min(a, b) == IF a <= b THEN a ELSE b

\* mutant: the right bounds paired from the far end
Averages_Crossed(left, right) ==
    [i \in 1..Min(Len(left), Len(right)) |->
        FloatHalf(FloatAdd(left[i], right[Len(right) + 1 - i]))]

\* for left, right in zip(self.left_bounds, self.right_bounds):
\*     final_x_positions.append((left + right) / 2.0)
Averages(left, right) ==
    [i \in 1..Min(Len(left), Len(right)) |->
        FloatHalf(FloatAdd(left[i], right[i]))]

\* rust_array_string: the declaration line, one line per position, "];"
Render(positions) ==
    <<Decl, NL>>
    \o [k \in 1..(2 * Len(positions)) |->
            IF k % 2 = 1 THEN Num(positions[(k + 1) \div 2]) ELSE NL]
    \o <<Close>>

\* mutant: the pattern without its "^" anchor
MatchesAt_Unanchored(content, i) ==
    /\ content[i] = Decl
    /\ \E j \in (i + 1)..Len(content) : content[j] = Close

\* the pattern matches at i: Decl at the start of a line ("^" with
\* re.MULTILINE), then anything (re.DOTALL), then a Close
MatchesAt(content, i) ==
    /\ content[i] = Decl
    /\ i = 1 \/ content[i - 1] = NL
    /\ \E j \in (i + 1)..Len(content) : content[j] = Close

\* re.search: start of the leftmost match, 0 when there is none
MatchStart(content) ==
    IF \E i \in 1..Len(content) : MatchesAt(content, i)
    THEN CHOOSE i \in 1..Len(content) :
            /\ MatchesAt(content, i)
            /\ \A h \in 1..(i - 1) : ~MatchesAt(content, h)
    ELSE 0

\* mutant: a greedy group, the match runs to the last Close
MatchEnd_Greedy(content, i) ==
    CHOOSE j \in (i + 1)..Len(content) :
        /\ content[j] = Close
        /\ \A h \in (j + 1)..Len(content) : content[h] # Close

\* "(.*?)\];" is lazy: the match ends at the first Close after its start
MatchEnd(content, i) ==
    CHOOSE j \in (i + 1)..Len(content) :
        /\ content[j] = Close
        /\ \A h \in (i + 1)..(j - 1) : content[h] # Close

\* re.sub(array_pattern, rust_array_string, original_content, count=1)
SubFirst(content, block) ==
    LET i == MatchStart(content)
        j == MatchEnd(content, i)
    IN  SubSeq(content, 1, i - 1) \o block \o SubSeq(content, j + 1, Len(content))

\* I/O faults the operating system may raise during the patch
Faults == {"none", "read", "open_w", "write"}

\* the exception open(rust_file_path, "r") and f.read() raise, "" for none
ReadRaises(d, fault) ==
    IF ~d.exists THEN "FileNotFoundError"
    ELSE IF fault = "read" THEN "OSError" ELSE ""

\* mutant: the generic except clause placed first
Except_GenericFirst(exc) == [message |-> "error", raised |-> ""]

\* mutant: the generic except clause reports and re-raises
Except_Reraise(exc) ==
    IF exc = "FileNotFoundError"
    THEN [message |-> "file not found", raised |-> ""]
    ELSE [message |-> "error", raised |-> exc]

\* the except clauses: the line printed for exception exc, and the exception
\* that leaves calculate_and_update_rust_file ("" when it is swallowed)
Except(exc) ==
    IF exc = "FileNotFoundError"
    THEN [message |-> "file not found", raised |-> ""]
    ELSE [message |-> "error", raised |-> ""]

\* calculate_and_update_rust_file on bounds left, right and file d under
\* fault; cut is the number of tokens on disk when a write fails midway.
\* messages are the lines it prints, writes counts open(path, "w").
calculate_and_update_rust_file(left, right, d, fault, cut) ==
    LET final_x_positions == Averages(left, right)
        rust_array_string == Render(final_x_positions)
        new_content == SubFirst(d.content, rust_array_string)
        result(msg, raised, file) ==
            [final_x_positions |-> final_x_positions,
             rust_array_string |-> rust_array_string,
             messages |-> <<"new block", msg>>, raised |-> raised,
             disk |-> file]
        caught(exc, file) ==
            result(Except(exc).message, Except(exc).raised, file)
    IN  IF Len(left) # Len(right)
        THEN [final_x_positions |-> <<>>, rust_array_string |-> <<>>,
              messages |-> <<"mismatched">>, raised |-> "", disk |-> d]
        ELSE IF ReadRaises(d, fault) # "" THEN caught(ReadRaises(d, fault), d)
        ELSE IF MatchStart(d.content) = 0 THEN result("block not found", "", d)
        ELSE IF fault = "open_w" THEN caught("OSError", d)
        ELSE IF fault = "write"
        THEN caught("OSError",
                    [d EXCEPT !.content = SubSeq(new_content, 1,
                                                 Min(cut, Len(new_content) - 1)),
                              !.writes = @ + 1])
        ELSE result("updated", "",
                    [d EXCEPT !.content = new_content, !.writes = @ + 1])

\* ------------------------------------------------------------------------
\* CalibrationUtility
\* ------------------------------------------------------------------------

\* app        the CalibrationUtility object and its main loop
\* disk       src/main.rs
\* patch      what the patcher computed and printed, and the fault it met
\* lastEvent  the event the main loop dispatched last
\* confirmed  the samples Confirm stored in each phase, in the order they
\*            were confirmed, kept until an Undo removes one
VARIABLES app, disk, patch, lastEvent, confirmed

vars == <<app, disk, patch, lastEvent, confirmed>>

\* the list self.current_list refers to
CurrentList(a) ==
    IF a.current_list = "left_bounds" THEN a.left_bounds ELSE a.right_bounds

\* current_x_label holds the float the readout shows (to four decimals)
\* mutant: a Motion event on a window without width resets the fraction
on_mouse_move_ResetOnZero(a, x, width) ==
    IF width > 0
    THEN [a EXCEPT !.mouse_x_percentage = FloatDiv(x, width),
                   !.current_x_label = FloatDiv(x, width)]
    ELSE [a EXCEPT !.mouse_x_percentage = FloatZero,
                   !.current_x_label = FloatZero]

on_mouse_move(a, x, width) ==
    IF width > 0
    THEN [a EXCEPT !.mouse_x_percentage = FloatDiv(x, width),
                   !.current_x_label = FloatDiv(x, width)]
    ELSE a

\* mutant: the guard of the right-bound insert dropped
RightHasRoom_Always(a) == TRUE

\* mutant: the guard of the right-bound insert off by one
RightHasRoom_LessEq(a) == Len(a.right_bounds) <= Len(a.left_bounds)

\* len(self.right_bounds) < len(self.left_bounds)
RightHasRoom(a) == Len(a.right_bounds) < Len(a.left_bounds)

\* mutant: the right bound appended like a left bound
InsertHead_Append(list, v) == Append(list, v)

\* self.current_list.insert(0, v)
InsertHead(list, v) == <<v>> \o list

\* mutant: completion as soon as one right bound is stored
Complete_First(right, left) == Len(right) >= 1

\* len(self.right_bounds) == len(self.left_bounds) after the insert
Complete(right, left) == Len(right) = Len(left)

\* the "space" branch of on_key_press
KeySpaceResult(a, d, p, fault, cut) ==
    IF a.current_list = "left_bounds"
    THEN LET l == Append(a.left_bounds, a.mouse_x_percentage)
         IN  [app |-> [a EXCEPT !.left_bounds = l,
                                !.status_label = <<"Collecting Left Bounds", Len(l)>>],
              disk |-> d, patch |-> p]
    ELSE IF a.current_list = "right_bounds" /\ RightHasRoom(a)
    THEN LET r == InsertHead(a.right_bounds, a.mouse_x_percentage)
         IN  IF Complete(r, a.left_bounds)
             THEN LET res == calculate_and_update_rust_file(
                                 a.left_bounds, r, d, fault, cut)
                  IN  [app |-> [a EXCEPT
                                  !.right_bounds = r,
                                  !.status_label = <<"Right bounds collection complete.">>,
                                  \* self.master.quit() is reached only when
                                  \* the patcher returns
                                  !.mainloop = (res.raised # "")],
                       disk |-> res.disk,
                       patch |-> [calls |-> p.calls + 1,
                                  final_x_positions |-> res.final_x_positions,
                                  rust_array_string |-> res.rust_array_string,
                                  messages |-> p.messages \o res.messages,
                                  raised |-> res.raised,
                                  fault |-> fault]]
             ELSE [app |-> [a EXCEPT
                              !.right_bounds = r,
                              !.status_label = <<"Collecting Right Bounds",
                                                 Len(r), Len(a.left_bounds)>>],
                   disk |-> d, patch |-> p]
    ELSE [app |-> a, disk |-> d, patch |-> p]

\* list.pop(): the list without its last element
Pop(list) == SubSeq(list, 1, Len(list) - 1)

\* mutant: Undo always applied to left_bounds
KeyBackSpaceResult_AlwaysLeft(a) ==
    IF Len(a.left_bounds) > 0
    THEN LET l == Pop(a.left_bounds)
         IN  [a EXCEPT !.left_bounds = l,
                       !.status_label = <<"Collecting Left Bounds", Len(l)>>]
    ELSE a

\* the "BackSpace" branch of on_key_press
KeyBackSpaceResult(a) ==
    IF Len(CurrentList(a)) > 0
    THEN IF a.current_list = "left_bounds"
         THEN LET l == Pop(a.left_bounds)
              IN  [a EXCEPT !.left_bounds = l,
                            !.status_label = <<"Collecting Left Bounds", Len(l)>>]
         ELSE LET r == Pop(a.right_bounds)
              IN  [a EXCEPT !.right_bounds = r,
                            !.status_label = <<"Collecting Right Bounds",
                                               Len(r), Len(a.left_bounds)>>]
    ELSE a

\* mutant: Return toggles between the two lists
KeyReturnResult_Toggle(a) ==
    IF a.current_list = "left_bounds"
    THEN [a EXCEPT !.current_list = "right_bounds",
                   !.status_label = <<"Collecting Right Bounds",
                                      Len(a.right_bounds), Len(a.left_bounds)>>]
    ELSE [a EXCEPT !.current_list = "left_bounds"]

\* the "Return" branch of on_key_press
KeyReturnResult(a) ==
    IF a.current_list = "left_bounds"
    THEN [a EXCEPT !.current_list = "right_bounds",
                   !.status_label = <<"Collecting Right Bounds",
                                      Len(a.right_bounds), Len(a.left_bounds)>>]
    ELSE a

on_key_press(a, d, p, keysym, fault, cut) ==
    IF keysym = "space" THEN KeySpaceResult(a, d, p, fault, cut)
    ELSE IF keysym = "BackSpace"
    THEN [app |-> KeyBackSpaceResult(a), disk |-> d, patch |-> p]
    ELSE IF keysym = "Return"
    THEN [app |-> KeyReturnResult(a), disk |-> d, patch |-> p]
    ELSE [app |-> a, disk |-> d, patch |-> p]

\* contents src/main.rs may have when the session starts
InitialContents ==
    { <<Txt, NL, Txt>>,                                  \* no declaration
      <<Txt, Decl, Txt, Close, NL>>,                     \* not at a line start
      <<Decl, Txt, NL, Txt>>,                            \* never closed
      <<Txt, NL, Decl, Txt, NL, Txt, Close, NL, Txt>>,   \* one block
      <<Decl, Close, NL, Decl, Txt, Close, Txt>> }       \* two blocks

File(content) == [exists |-> TRUE, content |-> content, writes |-> 0]

NoFile == [exists |-> FALSE, content |-> <<>>, writes |-> 0]

InitialDisks == {NoFile} \cup {File(c) : c \in InitialContents}

\* CalibrationUtility.__init__
InitApp ==
    [left_bounds |-> <<>>, right_bounds |-> <<>>,
     current_list |-> "left_bounds",
     status_label |-> <<"Collecting Left Bounds">>,
     current_x_label |-> FloatZero,
     mouse_x_percentage |-> FloatZero,
     mainloop |-> TRUE]

InitSession ==
    /\ app = InitApp
    /\ patch = [calls |-> 0, final_x_positions |-> <<>>,
                rust_array_string |-> <<>>, messages |-> <<>>,
                raised |-> "", fault |-> "none"]
    /\ lastEvent = "none"
    /\ confirmed = [left |-> <<>>, right |-> <<>>, undo |-> FALSE]

Init == InitSession /\ disk \in InitialDisks

\* the record of confirmed samples after a key event took a to b
Confirmed(a, b) ==
    IF confirmed.undo THEN confirmed
    ELSE IF Len(b.left_bounds) > Len(a.left_bounds)
    THEN [confirmed EXCEPT !.left = Append(@, a.mouse_x_percentage)]
    ELSE IF Len(b.right_bounds) > Len(a.right_bounds)
    THEN [confirmed EXCEPT !.right = Append(@, a.mouse_x_percentage)]
    ELSE IF Len(b.left_bounds) < Len(a.left_bounds)
            \/ Len(b.right_bounds) < Len(a.right_bounds)
    THEN [left |-> <<>>, right |-> <<>>, undo |-> TRUE]
    ELSE confirmed

\* on_key_press runs for a <KeyPress> event with event.keysym = keysym
KeyPress(keysym, fault, cut) ==
    /\ LET res == on_key_press(app, disk, patch, keysym, fault, cut)
       IN  /\ app' = res.app
           /\ disk' = res.disk
           /\ patch' = res.patch
           /\ confirmed' = Confirmed(app, res.app)
    /\ lastEvent' = keysym

\* the main loop dispatches <Motion> with event.x in pixels
Motion(pixels) ==
    /\ app.mainloop
    /\ \E x \in pixels, width \in Widths : app' = on_mouse_move(app, x, width)
    /\ lastEvent' = "Motion"
    /\ UNCHANGED <<disk, patch, confirmed>>

KeySpace(maxLeft) ==
    /\ app.mainloop
    /\ app.current_list = "left_bounds" => Len(app.left_bounds) < maxLeft
    /\ \E fault \in Faults :
           \E cut \in (IF fault = "write" THEN 0..MaxCut ELSE {0}) :
               KeyPress("space", fault, cut)

KeyBackSpace == app.mainloop /\ KeyPress("BackSpace", "none", 0)

KeyReturn == app.mainloop /\ KeyPress("Return", "none", 0)

\* a key on_key_press has no branch for
KeyOther == app.mainloop /\ KeyPress("a", "none", 0)

Next ==
    \/ Motion(Pixels)
    \/ KeySpace(MaxLeft)
    \/ KeyBackSpace
    \/ KeyReturn
    \/ KeyOther

Spec == Init /\ [][Next]_vars

\* the sessions of the scenario: four pointer positions, one file with a block
ScenarioInit ==
    InitSession /\ disk = File(<<Txt, NL, Decl, Txt, NL, Txt, Close, NL, Txt>>)

ScenarioNext ==
    \/ Motion(ScenarioPixels)
    \/ KeySpace(ScenarioLeft)
    \/ KeyBackSpace
    \/ KeyReturn
    \/ KeyOther

ScenarioSpec == ScenarioInit /\ [][ScenarioNext]_vars


\* ------------------------------------------------------------------------
\* Properties
\* ------------------------------------------------------------------------

CollectingLeft == app.current_list = "left_bounds"

CollectingRight == app.current_list = "right_bounds"

\* a < b for non-negative floats
FloatLess(a, b) ==
    IF IsZero(b) THEN FALSE
    ELSE IF IsZero(a) THEN TRUE
    ELSE \/ a.exp < b.exp
         \/ a.exp = b.exp /\ a.hi < b.hi
         \/ a.exp = b.exp /\ a.hi = b.hi /\ a.lo < b.lo

StrictlyIncreasing(list) ==
    \A i \in 1..(Len(list) - 1) : FloatLess(list[i], list[i + 1])

Reverse(list) == [i \in 1..Len(list) |-> list[Len(list) + 1 - i]]

\* C1: in every reachable state the length of right-bounds is at most the
\* length of left-bounds
C1_RightNeverLonger == Len(app.right_bounds) <= Len(app.left_bounds)

\* C1 witness: a Confirm has filled right-bounds up to the length of left-bounds
C1_Witness ==
    /\ lastEvent = "space"
    /\ CollectingRight
    /\ Len(app.left_bounds) >= 2
    /\ Len(app.right_bounds) = Len(app.left_bounds)

\* C2: in every state where Confirm inserts a sample and the loop is still
\* running afterwards, Confirm followed immediately by Undo leaves left-bounds
\* and right-bounds as they were before the Confirm
C2_UndoInvertsConfirm ==
    LET s1 == on_key_press(app, disk, patch, "space", "none", 0)
        s2 == on_key_press(s1.app, s1.disk, s1.patch, "BackSpace", "none", 0)
    IN  (/\ app.mainloop
         /\ CollectingLeft \/ (CollectingRight /\ RightHasRoom(app))
         /\ s1.app.mainloop)
        => /\ s2.app.left_bounds = app.left_bounds
           /\ s2.app.right_bounds = app.right_bounds

\* C3: when the right samples were confirmed in strictly increasing order and
\* no Undo removed one, right-bounds is increasing by index, and once it is
\* complete right[i] is the i-th sample confirmed, the right edge of the
\* region of left[i]
C3_RightOrderAligned ==
    (/\ ~confirmed.undo
     /\ StrictlyIncreasing(confirmed.right))
    => /\ StrictlyIncreasing(app.right_bounds)
       /\ Len(app.right_bounds) = Len(app.left_bounds)
            => app.right_bounds = confirmed.right

\* C4: the phase starts at collecting-left; Return in collecting-left
\* switches to collecting-right; once collecting-right the phase never
\* returns to collecting-left; Return in collecting-right changes neither the
\* phase nor either list
C4_PhaseStep ==
    /\ CollectingRight => CollectingRight'
    /\ (CollectingLeft /\ lastEvent' = "Return") => CollectingRight'
    /\ (CollectingRight /\ lastEvent' = "Return")
         => /\ app'.left_bounds = app.left_bounds
            /\ app'.right_bounds = app.right_bounds
            /\ app'.current_list = app.current_list

C4_PhaseForwardOnce == CollectingLeft /\ [][C4_PhaseStep]_vars

\* C4 witness: Return was pressed in collecting-right, after a right bound
\* was stored
C4_Witness ==
    /\ lastEvent = "Return"
    /\ CollectingRight
    /\ Len(app.right_bounds) = 1
    /\ app.mainloop

\* C5: Confirm in collecting-right with room inserts the current fraction at
\* the head of right-bounds; the patcher is invoked and the loop terminated
\* exactly when the lengths are then equal; no other event invokes the
\* patcher, it runs at most once, and nothing changes after termination
C5_ConfirmStep ==
    /\ (app.mainloop /\ lastEvent' = "space" /\ CollectingRight
        /\ Len(app.right_bounds) < Len(app.left_bounds))
         => /\ app'.right_bounds = <<app.mouse_x_percentage>> \o app.right_bounds
            /\ app'.left_bounds = app.left_bounds
            /\ IF Len(app'.right_bounds) = Len(app'.left_bounds)
               THEN patch'.calls = patch.calls + 1 /\ ~app'.mainloop
               ELSE patch'.calls = patch.calls /\ app'.mainloop
    /\ patch'.calls # patch.calls
         => /\ lastEvent' = "space"
            /\ CollectingRight
            /\ Len(app.right_bounds) < Len(app.left_bounds)
    /\ app'.mainloop # app.mainloop => patch'.calls = patch.calls + 1
    /\ ~app.mainloop => UNCHANGED vars

C5_CompletionTrigger == [](patch.calls <= 1) /\ [][C5_ConfirmStep]_vars

\* C5 witness: the completing Confirm ran the patcher and ended the loop
C5_Witness ==
    /\ lastEvent = "space"
    /\ patch.calls = 1
    /\ ~app.mainloop
    /\ Len(app.right_bounds) = Len(app.left_bounds)
    /\ Len(app.left_bounds) >= 1


\* C6: whenever the patcher has run on left-bounds L and right-bounds R of
\* equal length, the averaged sequence A has len(A) = len(L) and
\* A[i] = (L[i] + R[i]) / 2 for every i, and the rendered block lists A in
\* index order
C6_AveragesPairwise ==
    LET L == app.left_bounds
        R == app.right_bounds
        A == patch.final_x_positions
    IN  (patch.calls > 0 /\ Len(L) = Len(R))
        => /\ Len(A) = Len(L)
           /\ \A i \in 1..Len(L) : A[i] = FloatHalf(FloatAdd(L[i], R[i]))
           /\ Len(patch.rust_array_string) = 2 * Len(A) + 3
           /\ \A i \in 1..Len(A) : patch.rust_array_string[2 * i + 1] = Num(A[i])

\* C6 witness: the patcher averaged two pairs into two different positions
C6_Witness ==
    /\ patch.calls = 1
    /\ Len(patch.final_x_positions) = 2
    /\ patch.final_x_positions[1] # patch.final_x_positions[2]
    /\ app.left_bounds[1] # app.left_bounds[2]

\* the float a decimal literal 0.k denotes: the binary64 nearest to k/10
Tenths(k) == FloatDiv(k, 10)

\* the float just below a (for a.lo > 0)
JustBelow(a) == [a EXCEPT !.lo = @ - 1]

\* the pairing of C7: n >= 1 left samples l and n right samples r confirmed
\* in that order without Undo give right-bounds [r_n, ..., r_1] and
\* A[i] = (l_i + r_(n+1-i)) / 2
C7_Pairing ==
    LET l == confirmed.left
        r == confirmed.right
        n == Len(l)
        A == patch.final_x_positions
    IN  (patch.calls = 1 /\ ~confirmed.undo)
        => /\ n >= 1
           /\ Len(r) = n
           /\ app.left_bounds = l
           /\ app.right_bounds = Reverse(r)
           /\ Len(A) = n
           /\ \A i \in 1..n : A[i] = FloatHalf(FloatAdd(l[i], r[n + 1 - i]))

\* left samples 0.1, 0.5 and right samples 0.3 then 0.7 were confirmed, no
\* Undo, and the patcher has run
C7_Scenario ==
    /\ patch.calls = 1
    /\ ~confirmed.undo
    /\ confirmed.left = <<Tenths(1), Tenths(5)>>
    /\ confirmed.right = <<Tenths(3), Tenths(7)>>

\* C7 as stated: the pairing, and in the scenario R = [0.7, 0.3] and
\* A = [0.4, 0.4]
C7_Original ==
    /\ C7_Pairing
    /\ C7_Scenario
         => /\ app.right_bounds = <<Tenths(7), Tenths(3)>>
            /\ patch.final_x_positions = <<Tenths(4), Tenths(4)>>

\* C7 amended: the pairing, and in the scenario R = [0.7, 0.3] and
\* A = [0.39999999999999997, 0.4]: (0.1 + 0.7) / 2 is the float just below 0.4
C7_Amended ==
    /\ C7_Pairing
    /\ C7_Scenario
         => /\ app.right_bounds = <<Tenths(7), Tenths(3)>>
            /\ patch.final_x_positions = <<JustBelow(Tenths(4)), Tenths(4)>>

\* C7 witness: the scenario ran to completion
C7_Witness ==
    /\ C7_Scenario
    /\ lastEvent = "space"
    /\ ~app.mainloop
    /\ app.left_bounds = <<Tenths(1), Tenths(5)>>

\* C8: Confirm in collecting-right while len(right) = len(left) changes
\* neither list nor the phase, does not invoke the patcher and does not
\* terminate the loop
C8_Step ==
    (/\ app.mainloop
     /\ lastEvent' = "space"
     /\ CollectingRight
     /\ Len(app.right_bounds) = Len(app.left_bounds))
    => /\ app'.left_bounds = app.left_bounds
       /\ app'.right_bounds = app.right_bounds
       /\ app'.current_list = app.current_list
       /\ app'.mainloop
       /\ patch' = patch
       /\ disk' = disk

C8_FullConfirmNoOp == [][C8_Step]_vars

\* C8 witness: Confirm was pressed in collecting-right with both lists of
\* equal length and the loop goes on
C8_Witness ==
    /\ lastEvent = "space"
    /\ CollectingRight
    /\ Len(app.right_bounds) = Len(app.left_bounds)
    /\ app.mainloop
    /\ patch.calls = 0

\* the text holds a block of the declaration pattern: the declaration at the
\* start of a line and a closing "];" somewhere after it
HasBlock(content) ==
    \E i \in 1..Len(content), j \in 1..Len(content) :
        /\ i < j
        /\ content[i] = Decl
        /\ i = 1 \/ content[i - 1] = NL
        /\ content[j] = Close

\* C9: when the patcher runs on an existing, readable file whose text holds
\* no block of the pattern, the file is left as it was, nothing is written
\* and "block not found" is reported
C9_Step ==
    (/\ patch'.calls = patch.calls + 1
     /\ disk.exists
     /\ patch'.fault # "read"
     /\ ~HasBlock(disk.content))
    => /\ disk' = disk
       /\ disk'.writes = 0
       /\ patch'.messages = <<"new block", "block not found">>

C9_PatternNotFound == [][C9_Step]_vars

\* C9 witness: the patcher reported "block not found" for a file that holds
\* the declaration, but not at the start of a line
C9_Witness ==
    /\ patch.calls = 1
    /\ disk.exists
    /\ \E i \in 1..Len(disk.content) : disk.content[i] = Decl
    /\ \E i \in 1..Len(disk.content) : disk.content[i] = Close
    /\ patch.messages = <<"new block", "block not found">>

\* C10: when the patcher runs and the file does not exist it reports "file
\* not found", writes and creates nothing, and raises nothing: the handler
\* goes on to terminate the loop
C10_Step ==
    (/\ patch'.calls = patch.calls + 1
     /\ ~disk.exists)
    => /\ disk' = disk
       /\ disk'.writes = 0
       /\ patch'.messages = <<"new block", "file not found">>
       /\ patch'.raised = ""
       /\ ~app'.mainloop

C10_MissingFile == [][C10_Step]_vars

\* C10 witness: the patcher ran without the file and the session ended
C10_Witness ==
    /\ patch.calls = 1
    /\ ~disk.exists
    /\ patch.messages = <<"new block", "file not found">>
    /\ ~app.mainloop


\* i starts a block of the declaration pattern in content
BlockAt(content, i) ==
    /\ content[i] = Decl
    /\ i = 1 \/ content[i - 1] = NL
    /\ \E j \in (i + 1)..Len(content) : content[j] = Close

\* where the first block of content starts and ends
FirstBlockStart(content) ==
    CHOOSE i \in 1..Len(content) :
        BlockAt(content, i) /\ \A h \in 1..(i - 1) : ~BlockAt(content, h)

FirstBlockEnd(content) ==
    CHOOSE j \in (FirstBlockStart(content) + 1)..Len(content) :
        /\ content[j] = Close
        /\ \A h \in (FirstBlockStart(content) + 1)..(j - 1) : content[h] # Close

\* the number of declarations in content
Declarations(content) == Cardinality({i \in 1..Len(content) : content[i] = Decl})

\* C11: when the patch succeeds the file holds the text before the first
\* block, the new block, and the text after the first block, later blocks
\* included; the one write goes to the same file
C11_Step ==
    (/\ patch'.calls = patch.calls + 1
     /\ disk.exists
     /\ patch'.fault = "none"
     /\ HasBlock(disk.content))
    => /\ disk'.content =
              SubSeq(disk.content, 1, FirstBlockStart(disk.content) - 1)
              \o patch'.rust_array_string
              \o SubSeq(disk.content, FirstBlockEnd(disk.content) + 1,
                        Len(disk.content))
       /\ disk'.exists
       /\ disk'.writes = disk.writes + 1
       /\ patch'.messages = <<"new block", "updated">>

C11_ReplacesFirstBlockOnly == [][C11_Step]_vars

\* C11 witness: a file with two blocks was patched and still holds the
\* second block after the new one
C11_Witness ==
    /\ patch.calls = 1
    /\ patch.messages = <<"new block", "updated">>
    /\ disk.writes = 1
    /\ Declarations(disk.content) = 2
    /\ disk.content[Len(disk.content)] = Txt

\* the lines the patcher can end with
Outcomes == {"updated", "file not found", "block not found", "error"}

\* C12: whatever the patcher's outcome, the handler that invoked it goes on
\* to terminate the loop and no exception leaves the patcher
C12_Step ==
    patch'.calls = patch.calls + 1
    => /\ ~app'.mainloop
       /\ patch'.raised = ""
       /\ patch'.messages[Len(patch'.messages)] \in Outcomes

C12_AlwaysShutsDown == [][C12_Step]_vars

\* C12 witness: the write failed midway, the generic error was reported and
\* the loop ended
C12_Witness ==
    /\ patch.calls = 1
    /\ patch.fault = "write"
    /\ disk.writes = 1
    /\ patch.messages = <<"new block", "error">>
    /\ ~app.mainloop

\* C13: the patcher is invoked only with left-bounds and right-bounds of
\* equal length, and never prints the mismatched-bounds error
C13_Step ==
    patch'.calls # patch.calls
    => Len(app'.left_bounds) = Len(app'.right_bounds)

C13_NeverMismatched ==
    /\ [](\A i \in 1..Len(patch.messages) : patch.messages[i] # "mismatched")
    /\ [][C13_Step]_vars

\* C13 witness: the patcher ran on three pairs and averaged them
C13_Witness ==
    /\ patch.calls = 1
    /\ Len(app.left_bounds) = 3
    /\ Len(app.right_bounds) = 3
    /\ Len(patch.final_x_positions) = 3
    /\ patch.messages[1] = "new block"


\* C14: a Return key event in collecting-right completes the session: the
\* patcher is invoked and the loop terminated
C14_Step ==
    (/\ app.mainloop
     /\ lastEvent' = "Return"
     /\ CollectingRight)
    => /\ patch'.calls = patch.calls + 1
       /\ ~app'.mainloop

C14_ReturnFinishes == [][C14_Step]_vars

\* C15: in collecting-left right-bounds is empty and left-bounds changes only
\* by Confirm appending the current fraction at the tail or by Undo removing
\* the tail; in collecting-right left-bounds never changes
C15_Step ==
    /\ (CollectingLeft /\ app'.left_bounds # app.left_bounds)
         => \/ /\ lastEvent' = "space"
               /\ app'.left_bounds =
                      app.left_bounds \o <<app.mouse_x_percentage>>
            \/ /\ lastEvent' = "BackSpace"
               /\ Len(app.left_bounds) >= 1
               /\ app'.left_bounds =
                      SubSeq(app.left_bounds, 1, Len(app.left_bounds) - 1)
    /\ CollectingRight => app'.left_bounds = app.left_bounds

C15_ActiveListOnly ==
    /\ [](CollectingLeft => app.right_bounds = <<>>)
    /\ [][C15_Step]_vars

\* C15 witness: in collecting-right a right bound was stored and an Undo
\* then removed it, next to two left bounds
C15_Witness ==
    /\ lastEvent = "BackSpace"
    /\ CollectingRight
    /\ confirmed.undo
    /\ Len(app.left_bounds) = 2
    /\ app.right_bounds = <<>>
    /\ app.status_label = <<"Collecting Right Bounds", 0, 2>>

\* C16: Undo while the list of the current phase is empty changes neither
\* list nor the phase, and the session goes on as before
C16_Step ==
    (/\ app.mainloop
     /\ lastEvent' = "BackSpace"
     /\ \/ CollectingLeft /\ app.left_bounds = <<>>
        \/ CollectingRight /\ app.right_bounds = <<>>)
    => /\ app'.left_bounds = app.left_bounds
       /\ app'.right_bounds = app.right_bounds
       /\ app'.current_list = app.current_list
       /\ app'.mainloop
       /\ patch' = patch
       /\ disk' = disk

C16_UndoOnEmptyNoOp == [][C16_Step]_vars

\* C16 witness: Undo was pressed in collecting-right before any right bound
\* was stored, and the left bounds are still there
C16_Witness ==
    /\ lastEvent = "BackSpace"
    /\ CollectingRight
    /\ ~confirmed.undo
    /\ confirmed.right = <<>>
    /\ Len(app.left_bounds) >= 1
    /\ app.left_bounds = confirmed.left


\* C17: a Motion event changes at most the current fraction and its readout,
\* to event.x / width for a positive width; with a width that is not positive
\* it changes nothing, and the fraction held is what the next Confirm stores
C17_Step ==
    /\ lastEvent' = "Motion"
         => \/ app' = app
            \/ \E x \in AllPixels, width \in PositiveWidths :
                   app' = [app EXCEPT !.mouse_x_percentage = FloatDiv(x, width),
                                      !.current_x_label = FloatDiv(x, width)]
    /\ lastEvent' = "Motion" => disk' = disk /\ patch' = patch
    /\ (lastEvent' = "space" /\ app'.left_bounds # app.left_bounds)
         => app'.left_bounds[Len(app'.left_bounds)] = app.mouse_x_percentage
    /\ (lastEvent' = "space" /\ app'.right_bounds # app.right_bounds)
         => app'.right_bounds[1] = app.mouse_x_percentage

C17_NoWidthKeepsFraction ==
    \A x \in AllPixels, width \in Widths \ PositiveWidths :
        LET kept == on_mouse_move(app, x, width)
        IN  /\ kept = app
            /\ app.current_list = "left_bounds"
                 => LET after == on_key_press(kept, disk, patch,
                                              "space", "none", 0).app
                    IN  after.left_bounds =
                            app.left_bounds \o <<app.mouse_x_percentage>>

C17_MotionOnlyMovesFraction ==
    /\ []C17_NoWidthKeepsFraction
    /\ [][C17_Step]_vars

\* C17 witness: every Motion event so far, the last event among them, came
\* with a width of 0, so the fraction is still the initial 0.0, and that
\* value was stored as a left bound
C17_Witness ==
    /\ lastEvent = "Motion"
    /\ app.mouse_x_percentage = FloatZero
    /\ app.current_x_label = FloatZero
    /\ app.left_bounds = <<FloatZero>>
    /\ CollectingLeft

\* C18: while the loop runs the file is as it was at the start; the file
\* changes only in the step that invokes the patcher and ends the loop, and
\* only if it existed and held a block of the pattern
C18_Step ==
    disk' # disk
    => /\ patch'.calls = patch.calls + 1
       /\ disk.exists
       /\ HasBlock(disk.content)
       /\ ~app'.mainloop
       /\ disk'.exists

C18_FileUntouchedWhileRunning ==
    /\ [](app.mainloop => /\ disk \in InitialDisks
                          /\ disk.writes = 0
                          /\ patch.calls = 0)
    /\ [][C18_Step]_vars

\* C18 witness: the loop has ended and the file, which held one block, has
\* a content it did not start with
C18_Witness ==
    /\ ~app.mainloop
    /\ disk \notin InitialDisks
    /\ disk.writes = 1
    /\ Declarations(disk.content) = 1
    /\ patch.messages[Len(patch.messages)] = "updated"

\* C19: once the phase is collecting-right with no left bound, no event
\* changes the lists or the phase, invokes the patcher or ends the loop; the
\* patcher only ever runs with as many right bounds as left bounds, at least
\* one of each
C19_Step ==
    (CollectingRight /\ app.left_bounds = <<>>)
    => /\ app'.left_bounds = <<>>
       /\ app'.right_bounds = app.right_bounds
       /\ app'.current_list = app.current_list
       /\ app'.mainloop
       /\ patch' = patch
       /\ disk' = disk

C19_StuckWithoutLeftBounds ==
    /\ [](patch.calls > 0 => /\ Len(app.left_bounds) = Len(app.right_bounds)
                             /\ Len(app.left_bounds) >= 1)
    /\ []((app.current_list = "right_bounds" /\ app.left_bounds = <<>>)
             => app.right_bounds = <<>> /\ app.mainloop)
    /\ [][C19_Step]_vars

\* C19 witness: Return was pressed with no left bound and the keys pressed
\* since, the last of them Undo, left everything as it was
C19_Witness ==
    /\ lastEvent = "BackSpace"
    /\ CollectingRight
    /\ app.left_bounds = <<>>
    /\ app.right_bounds = <<>>
    /\ app.status_label = <<"Collecting Right Bounds", 0, 0>>
    /\ patch.calls = 0

====
